---- MODULE Spec2Model ----
(***************************************************************************)
(* A model of the Akamai CCU client library: the v2 client (queue length,  *)
(* purge, purge status) and the v3 client (purge with a lazily loaded      *)
(* edgegrid configuration), with the accessors Error, IsDone and ETA.      *)
(***************************************************************************)
EXTENDS Integers, Sequences, FiniteSets, TLC

VARIABLES
    last,        \* the most recently completed call or accessor evaluation
    Config,      \* v3 Client.Config: "nil", "supplied" or "loaded:<goroutine>"
    loads,       \* number of successful edgegrid.Init loads so far
    reassigned,  \* some store to Client.Config found it already non-nil
    pc,          \* per goroutine: position inside v3 Client.Purge
    req          \* per goroutine: the PurgeRequest its v3 Purge works on

vars == <<last, Config, loads, reassigned, pc, req>>

-----------------------------------------------------------------------------
(* Go's fixed-width integers.  An int64 is its 8 bytes, least significant  *)
(* first, in two's complement; arithmetic wraps to the operands' width.    *)
(* A time.Time is the count of nanoseconds since the zero Time, 16 bytes.  *)

RECURSIVE Bytes(_, _)
Bytes(n, w) ==
    IF w = 0 THEN <<>> ELSE <<n % 256>> \o Bytes(n \div 256, w - 1)

Int64(n) == Bytes(n, 8)

RECURSIVE ColSum(_, _, _, _)
ColSum(a, b, i, j) ==
    IF j > i THEN 0 ELSE a[j] * b[i - j + 1] + ColSum(a, b, i, j + 1)

RECURSIVE MulFrom(_, _, _, _)
MulFrom(a, b, i, carry) ==
    IF i > Len(a) THEN <<>>
    ELSE LET s == ColSum(a, b, i, 1) + carry
         IN  <<s % 256>> \o MulFrom(a, b, i + 1, s \div 256)

\* a * b truncated to the width of a (Go's wrapping multiplication)
Mul(a, b) == MulFrom(a, b, 1, 0)

RECURSIVE AddFrom(_, _, _, _)
AddFrom(a, b, i, carry) ==
    IF i > Len(a) THEN <<>>
    ELSE LET s == a[i] + b[i] + carry
         IN  <<s % 256>> \o AddFrom(a, b, i + 1, s \div 256)

\* a + b truncated to the width of a
Add(a, b) == AddFrom(a, b, 1, 0)

Neg(a) == Add([i \in 1..Len(a) |-> 255 - a[i]], Bytes(1, Len(a)))

IsNegative(a) == a[Len(a)] >= 128

\* sign extension of an int64 to 16 bytes
Widen(a) == a \o [i \in 1..Len(a) |-> IF IsNegative(a) THEN 255 ELSE 0]

\* time.Second, in nanoseconds
Second == Int64(1000000000)

\* time.Time{}
ZeroTime == Bytes(0, 16)

\* Time.IsZero
IsZero(t) == t = ZeroTime

\* Time.Add: the instant d nanoseconds after t
TimeAdd(t, d) == Add(t, Widen(d))

-----------------------------------------------------------------------------
(* Errors and responses.                                                   *)

ZeroResponse == [StatusCode |-> 0, Title |-> "", Detail |-> ""]

NilErr == [kind |-> "nil", msg |-> "", resp |-> ZeroResponse]

\* fmt.Errorf(msg)
Errorf(msg) == [kind |-> "errorString", msg |-> msg, resp |-> ZeroResponse]

NilVal == [kind |-> "nil"]

\* Error with the detail tested before the title
v2_Error_DetailFirst(e) ==
    IF e.Detail # "" THEN e.Title \o ": " \o e.Detail
    ELSE IF e.Title # "" THEN e.Title
    ELSE "unknown"

\* v2 Response.Error
v2_Error(e) ==
    IF e.Title = "" THEN "unknown"
    ELSE IF e.Detail = "" THEN e.Title
    ELSE e.Title \o ": " \o e.Detail

\* v3 Response.Error
v3_Error(e) ==
    IF e.Title = "" THEN "unknown"
    ELSE IF e.Detail = "" THEN e.Title
    ELSE e.Title \o ": " \o e.Detail

\* v2 Response.assertError: the *Response itself as the error, or nil
v2_assertError(r) ==
    IF r.StatusCode < 200 \/ r.StatusCode > 299
    THEN [kind |-> "Response", msg |-> v2_Error(r), resp |-> r]
    ELSE NilErr

\* assertError with the upper end of the 200 range off by one
v3_assertError_OffByOne(r) ==
    IF r.StatusCode < 200 \/ r.StatusCode >= 299
    THEN [kind |-> "Response", msg |-> v3_Error(r), resp |-> r]
    ELSE NilErr

\* v3 Response.assertError
v3_assertError(r) ==
    IF r.StatusCode < 200 \/ r.StatusCode > 299
    THEN [kind |-> "Response", msg |-> v3_Error(r), resp |-> r]
    ELSE NilErr

-----------------------------------------------------------------------------
(* The transport (http.Client.Do) and what it may answer.                  *)

apiURL == "https://api.ccu.akamai.com"

\* http.StatusUnauthorized
StatusUnauthorized == 401

\* a path segment url.Parse rejects (an invalid percent escape)
BadEscape == "%zz"

Titles == {"", "Bad Request"}
Details == {"", "missing objects"}
StatusCodes == {199, 200, 299, 300}
HTTPStatuses == {200, StatusUnauthorized}

Responses ==
    [StatusCode : StatusCodes, Title : Titles, Detail : Details]

\* the reply bodies that are not a JSON document of the expected shape
NotJSON == {[kind |-> "malformed", json |-> NilVal],
            [kind |-> "empty", json |-> NilVal]}

JSONBodies(values) == {[kind |-> "json", json |-> v] : v \in values}

SendFailure ==
    [sendErr |-> TRUE, status |-> 0, body |-> [kind |-> "empty", json |-> NilVal]]

\* no reply: the call did not get to sending
NoReply ==
    [sendErr |-> FALSE, status |-> 0, body |-> [kind |-> "none", json |-> NilVal]]

\* every outcome of HTTPClient.Do for a reply whose JSON decodes to one of values
Replies(values) ==
    {SendFailure} \cup
    [sendErr : {FALSE}, status : HTTPStatuses,
     body : NotJSON \cup JSONBodies(values)]

\* one executed phase of a call and whether it succeeded
Phase(name, ok) == <<name, ok>>

\* what a call hands back to its caller, with the phases it went through
Return(client, op, orig, r, target, val, err, phases) ==
    [client |-> client, op |-> op, orig |-> orig, req |-> r, target |-> target,
     val |-> val, err |-> err, phases |-> phases, reply |-> NoReply]

\* the call's record with the transport's reply, when the call got to sending
WithReply(call, reply) ==
    IF \E i \in 1..Len(call.phases) : call.phases[i][1] = "send"
    THEN [call EXCEPT !.reply = reply]
    ELSE call

\* an accessor evaluation: the value it was applied to and what it returned
Observe(client, op, arg, out) ==
    [client |-> client, op |-> op, arg |-> arg, out |-> out]

NoRequest == [kind |-> "none"]

-----------------------------------------------------------------------------
(* The v2 client.                                                          *)

\* http.NewRequest fails on a URL that does not parse
MalformedURL(url) ==
    \E prefix \in {"/ccu/v2/queues/", "/ccu/v2/purges/"} :
        url = apiURL \o prefix \o BadEscape

\* v2 Client.newHTTPRequest; v is NoRequest for a request without a body.
\* Encoding a PurgeRequest (strings and a list of strings) as JSON cannot
\* fail, so the one failure is http.NewRequest's.
v2_newHTTPRequest(method, url, v) ==
    IF MalformedURL(url)
    THEN [hreq |-> NilVal, err |-> Errorf("error creating HTTP request")]
    ELSE [hreq |-> [kind |-> "request", method |-> method, url |-> url,
                    body |-> v, contentTypeJSON |-> v # NoRequest,
                    basicAuth |-> TRUE],
          err |-> NilErr]

\* do with the JSON decode ahead of the 401 check
v2_do_DecodeFirst(hreq, reply) ==
    IF reply.sendErr
    THEN [v |-> NilVal, err |-> Errorf("error sending HTTP request"),
          phases |-> <<Phase("send", FALSE)>>]
    ELSE IF reply.body.kind # "json"
    THEN [v |-> NilVal, err |-> Errorf("error decoding JSON response"),
          phases |-> <<Phase("send", TRUE), Phase("decode", FALSE)>>]
    ELSE IF reply.status = StatusUnauthorized
    THEN [v |-> NilVal, err |-> Errorf("unauthorized"),
          phases |-> <<Phase("send", TRUE), Phase("decode", TRUE)>>]
    ELSE [v |-> reply.body.json, err |-> NilErr,
          phases |-> <<Phase("send", TRUE), Phase("decode", TRUE)>>]

\* v2 Client.do: one send, the 401 check, then the JSON decode into v
v2_do(hreq, reply) ==
    IF reply.sendErr
    THEN [v |-> NilVal, err |-> Errorf("error sending HTTP request"),
          phases |-> <<Phase("send", FALSE)>>]
    ELSE IF reply.status = StatusUnauthorized
    THEN [v |-> NilVal, err |-> Errorf("unauthorized"),
          phases |-> <<Phase("send", TRUE)>>]
    ELSE IF reply.body.kind # "json"
    THEN [v |-> NilVal, err |-> Errorf("error decoding JSON response"),
          phases |-> <<Phase("send", TRUE), Phase("decode", FALSE)>>]
    ELSE [v |-> reply.body.json, err |-> NilErr,
          phases |-> <<Phase("send", TRUE), Phase("decode", TRUE)>>]

QueueLengthResponses ==
    [kind : {"QueueLengthResponse"}, Response : Responses, QueueLength : {42}]

\* v2 Client.GetQueueLength
v2_GetQueueLength(reply) ==
    LET url  == apiURL \o "/ccu/v2/queues/default"
        b    == v2_newHTTPRequest("GET", url, NoRequest)
        d    == v2_do(b.hreq, reply)
        e    == v2_assertError(d.v.Response)
        ret(val, err, phases) ==
            Return("v2", "GetQueueLength", NoRequest, NoRequest, url,
                   val, err, phases)
    IN  IF b.err # NilErr
        THEN ret(NilVal, b.err, <<Phase("build", FALSE)>>)
        ELSE IF d.err # NilErr
        THEN ret(NilVal, d.err, <<Phase("build", TRUE)>> \o d.phases)
        ELSE IF e # NilErr
        THEN ret(NilVal, e, <<Phase("build", TRUE)>> \o d.phases
                              \o <<Phase("classify", FALSE)>>)
        ELSE ret(d.v, NilErr, <<Phase("build", TRUE)>> \o d.phases
                              \o <<Phase("classify", TRUE)>>)

\* v2 NewPurgeRequest
v2_NewPurgeRequest(objects) ==
    [Queue |-> "", Type |-> "arl", Action |-> "remove",
     Domain |-> "production", Objects |-> objects]

\* the EstimatedSeconds values a reply may carry (any int64)
EstimatedSecondsValues ==
    {Int64(0), Int64(300), Neg(Int64(1)),
     Add(Mul(Int64(92233), Int64(100000)), Int64(72036)),
     Add(Mul(Int64(92233), Int64(100000)), Int64(72037))}

v2_PurgeResponses ==
    [kind : {"PurgeResponse"}, Response : Responses,
     EstimatedSeconds : EstimatedSecondsValues, PurgeID : {"abc"},
     ProgressURI : {"/ccu/v2/purges/abc"}, PingAfterSeconds : {300},
     Time : {ZeroTime}]

\* v2 PurgeResponse.ETA
ETA(p) ==
    IF IsZero(p.Time) THEN ZeroTime
    ELSE TimeAdd(p.Time, Mul(Second, p.EstimatedSeconds))

\* v2 Client.Purge; now is what time.Now() returns
v2_Purge(r, reply, now) ==
    LET q    == IF r.Queue = "" THEN "default" ELSE r.Queue
        url  == apiURL \o "/ccu/v2/queues/" \o q
        b    == v2_newHTTPRequest("POST", url, r)
        d    == v2_do(b.hreq, reply)
        e    == v2_assertError(d.v.Response)
        ret(val, err, phases) ==
            Return("v2", "Purge", r, r, url, val, err, phases)
    IN  IF b.err # NilErr
        THEN ret(NilVal, b.err, <<Phase("build", FALSE)>>)
        ELSE IF d.err # NilErr
        THEN ret(NilVal, d.err, <<Phase("build", TRUE)>> \o d.phases)
        ELSE IF e # NilErr
        THEN ret(NilVal, e, <<Phase("build", TRUE)>> \o d.phases
                              \o <<Phase("classify", FALSE)>>)
        ELSE ret([d.v EXCEPT !.Time = now], e,
                 <<Phase("build", TRUE)>> \o d.phases
                 \o <<Phase("classify", TRUE)>>)

PurgeStatusValues == {"", "Pending", "done", "Done"}

PurgeStatusResponses ==
    [kind : {"PurgeStatusResponse"}, Response : Responses,
     PurgeID : {"abc"}, PurgeStatus : PurgeStatusValues]

\* IsDone comparing without regard to case
IsDone_AnyCase(p) == p.PurgeStatus \in {"Done", "done", "DONE"}

\* v2 PurgeStatusResponse.IsDone
IsDone(p) == p.PurgeStatus = "Done"

\* GetPurgeStatus handing back the decoded value along with the API error
v2_GetPurgeStatus_KeepsValue(purgeID, reply) ==
    LET url  == apiURL \o "/ccu/v2/purges/" \o purgeID
        b    == v2_newHTTPRequest("GET", url, NoRequest)
        d    == v2_do(b.hreq, reply)
        e    == v2_assertError(d.v.Response)
        ret(val, err, phases) ==
            Return("v2", "GetPurgeStatus", NoRequest, NoRequest, url,
                   val, err, phases)
    IN  IF b.err # NilErr
        THEN ret(NilVal, b.err, <<Phase("build", FALSE)>>)
        ELSE IF d.err # NilErr
        THEN ret(NilVal, d.err, <<Phase("build", TRUE)>> \o d.phases)
        ELSE ret(d.v, e, <<Phase("build", TRUE)>> \o d.phases
                         \o <<Phase("classify", e = NilErr)>>)

\* v2 Client.GetPurgeStatus
v2_GetPurgeStatus(purgeID, reply) ==
    LET url  == apiURL \o "/ccu/v2/purges/" \o purgeID
        b    == v2_newHTTPRequest("GET", url, NoRequest)
        d    == v2_do(b.hreq, reply)
        e    == v2_assertError(d.v.Response)
        ret(val, err, phases) ==
            Return("v2", "GetPurgeStatus", NoRequest, NoRequest, url,
                   val, err, phases)
    IN  IF b.err # NilErr
        THEN ret(NilVal, b.err, <<Phase("build", FALSE)>>)
        ELSE IF d.err # NilErr
        THEN ret(NilVal, d.err, <<Phase("build", TRUE)>> \o d.phases)
        ELSE IF e # NilErr
        THEN ret(NilVal, e, <<Phase("build", TRUE)>> \o d.phases
                              \o <<Phase("classify", FALSE)>>)
        ELSE ret(d.v, NilErr, <<Phase("build", TRUE)>> \o d.phases
                              \o <<Phase("classify", TRUE)>>)

-----------------------------------------------------------------------------
(* The v3 client.                                                          *)

\* the defaults with the test of Type left out
v3_Defaults_TypeOverwritten(r) ==
    LET a == IF r.Action = "" THEN [r EXCEPT !.Action = "invalidate"] ELSE r
        n == IF a.Network = "" THEN [a EXCEPT !.Network = "production"] ELSE a
    IN  [n EXCEPT !.Type = "url"]

\* v3 Client.Purge, its first statements: the defaults, set on the request
v3_Defaults(r) ==
    LET a == IF r.Action = "" THEN [r EXCEPT !.Action = "invalidate"] ELSE r
        n == IF a.Network = "" THEN [a EXCEPT !.Network = "production"] ELSE a
    IN  IF n.Type = "" THEN [n EXCEPT !.Type = "url"] ELSE n

\* Path with the type ahead of the action
Path_TypeFirst(p) ==
    "/ccu/v3/" \o p.Type \o "/" \o p.Action \o "/" \o p.Network

\* v3 PurgeRequest.Path
Path(p) == "/ccu/v3/" \o p.Action \o "/" \o p.Type \o "/" \o p.Network

\* do sending a second time when the first send fails
v3_do_Retry(hreq, reply) ==
    IF reply.sendErr
    THEN [v |-> NilVal, err |-> Errorf("error sending HTTP request"),
          phases |-> <<Phase("send", FALSE), Phase("send", FALSE)>>]
    ELSE IF reply.body.kind # "json"
    THEN [v |-> NilVal, err |-> Errorf("error decoding JSON response"),
          phases |-> <<Phase("send", TRUE), Phase("decode", FALSE)>>]
    ELSE [v |-> reply.body.json, err |-> NilErr,
          phases |-> <<Phase("send", TRUE), Phase("decode", TRUE)>>]

\* v3 Client.do: one send, then the JSON decode into v (no 401 check)
v3_do(hreq, reply) ==
    IF reply.sendErr
    THEN [v |-> NilVal, err |-> Errorf("error sending HTTP request"),
          phases |-> <<Phase("send", FALSE)>>]
    ELSE IF reply.body.kind # "json"
    THEN [v |-> NilVal, err |-> Errorf("error decoding JSON response"),
          phases |-> <<Phase("send", TRUE), Phase("decode", FALSE)>>]
    ELSE [v |-> reply.body.json, err |-> NilErr,
          phases |-> <<Phase("send", TRUE), Phase("decode", TRUE)>>]

\* v3 Client.newHTTPRequest once config() has returned a configuration;
\* jsonRequestOK is whether client.NewJSONRequest succeeds
v3_newHTTPRequest(method, path, v, jsonRequestOK) ==
    IF ~jsonRequestOK
    THEN [hreq |-> NilVal, err |-> Errorf("error creating HTTP request")]
    ELSE [hreq |-> [kind |-> "request", method |-> method, url |-> path,
                    body |-> v, signed |-> TRUE],
          err |-> NilErr]

v3_PurgeResponses ==
    [kind : {"PurgeResponse"}, Response : Responses,
     EstimatedSeconds : {Int64(5)}, PurgeID : {"abc"}]

\* v3 Client.Purge where config() fails: newHTTPRequest returns its error
v3_PurgeConfigError(orig, r) ==
    Return("v3", "Purge", orig, r, Path(r), NilVal,
           Errorf("error reading edgegrid configuration"),
           <<Phase("build", FALSE)>>)

\* v3 Client.Purge from newHTTPRequest's call of client.NewJSONRequest on
v3_Purge(orig, r, jsonRequestOK, reply) ==
    LET b == v3_newHTTPRequest("POST", Path(r), r, jsonRequestOK)
        d == v3_do(b.hreq, reply)
        e == v3_assertError(d.v.Response)
        ret(val, err, phases) ==
            Return("v3", "Purge", orig, r, Path(r), val, err, phases)
    IN  IF b.err # NilErr
        THEN ret(NilVal, b.err, <<Phase("build", FALSE)>>)
        ELSE IF d.err # NilErr
        THEN ret(NilVal, d.err, <<Phase("build", TRUE)>> \o d.phases)
        ELSE IF e # NilErr
        THEN ret(NilVal, e, <<Phase("build", TRUE)>> \o d.phases
                              \o <<Phase("classify", FALSE)>>)
        ELSE ret(d.v, e, <<Phase("build", TRUE)>> \o d.phases
                         \o <<Phase("classify", TRUE)>>)

-----------------------------------------------------------------------------
(* Inputs.                                                                 *)

\* how many seconds the wall clock may be past BaseNow when it is read
MaxTick == 1

\* an instant of 2026, in nanoseconds since the zero Time
BaseNow ==
    Mul(Widen(Add(Mul(Int64(639294), Int64(100000)), Int64(33600))),
        Widen(Second))

\* what time.Now() may return
Times == {TimeAdd(BaseNow, Mul(Second, Int64(k))) : k \in 0..MaxTick}

Objects == <<"123456">>

v2_PurgeRequests ==
    {v2_NewPurgeRequest(Objects)} \cup
    [Queue : {""}, Type : {"", "cpcode"}, Action : {"", "invalidate"},
     Domain : {"", "staging"}, Objects : {Objects}] \cup
    [Queue : {"q1", BadEscape}, Type : {""}, Action : {""},
     Domain : {""}, Objects : {Objects}]

v3_PurgeRequests ==
    [Type : {"", "cpcode"}, Action : {"", "delete"},
     Network : {"", "staging"}, Hostname : {""}, Objects : {Objects}]

PurgeIDs == {"abc", BadEscape}

Goroutines == {"g1", "g2"}

-----------------------------------------------------------------------------
(* The state machine.                                                      *)

\* the caller holds no result
NoCall == Observe("", "none", NilVal, NilVal)

Init ==
    /\ last = NoCall
    /\ Config \in {"nil", "supplied"}
    /\ loads = 0
    /\ reassigned = FALSE
    /\ pc = [g \in Goroutines |-> "idle"]
    /\ req = [g \in Goroutines |-> NoRequest]

v3vars == <<Config, loads, reassigned, pc, req>>

\* The caller looks at what an operation handed back and lets it go before
\* the next step is taken; letting go commutes with every other step.
Discard ==
    /\ last # NoCall
    /\ last' = NoCall
    /\ UNCHANGED v3vars

CallGetQueueLength ==
    /\ last = NoCall
    /\ \E reply \in Replies(QueueLengthResponses) :
           last' = WithReply(v2_GetQueueLength(reply), reply)
    /\ UNCHANGED v3vars

CallPurge ==
    /\ last = NoCall
    /\ \E r \in v2_PurgeRequests, reply \in Replies(v2_PurgeResponses),
          now \in Times :
           last' = WithReply(v2_Purge(r, reply, now), reply)
    /\ UNCHANGED v3vars

CallGetPurgeStatus ==
    /\ last = NoCall
    /\ \E id \in PurgeIDs, reply \in Replies(PurgeStatusResponses) :
           last' = WithReply(v2_GetPurgeStatus(id, reply), reply)
    /\ UNCHANGED v3vars

\* the result of an operation, when the caller holds one
HeldCall == IF last.op \in {"GetQueueLength", "Purge", "GetPurgeStatus"}
            THEN {last} ELSE {}

\* Error() of a Response of either package: one the caller built, or the
\* error an operation returned
CallError ==
    /\ \/ /\ last = NoCall
          /\ \E r \in Responses :
                 \/ last' = Observe("v2", "Error", r, v2_Error(r))
                 \/ last' = Observe("v3", "Error", r, v3_Error(r))
       \/ \E c \in HeldCall :
              /\ c.err.kind = "Response"
              /\ last' = Observe(c.client, "Error", c.err.resp,
                                 IF c.client = "v2" THEN v2_Error(c.err.resp)
                                 ELSE v3_Error(c.err.resp))
    /\ UNCHANGED v3vars

\* IsDone() of a PurgeStatusResponse the caller built, or of the one
\* GetPurgeStatus returned
CallIsDone ==
    /\ \/ /\ last = NoCall
          /\ \E p \in PurgeStatusResponses :
                 last' = Observe("v2", "IsDone", p, IsDone(p))
       \/ \E c \in HeldCall :
              /\ c.op = "GetPurgeStatus" /\ c.err = NilErr
              /\ last' = Observe("v2", "IsDone", c.val, IsDone(c.val))
    /\ UNCHANGED v3vars

\* the PurgeResponse values a caller can build: never stamped, or stamped
BuiltPurgeResponses ==
    [kind : {"PurgeResponse"},
     Response : {[StatusCode |-> 200, Title |-> "", Detail |-> ""]},
     EstimatedSeconds : EstimatedSecondsValues, PurgeID : {"abc"},
     ProgressURI : {"/ccu/v2/purges/abc"}, PingAfterSeconds : {300},
     Time : {ZeroTime} \cup Times]

\* ETA() of a PurgeResponse the caller built, or of the one v2 Purge returned
CallETA ==
    /\ \/ /\ last = NoCall
          /\ \E p \in BuiltPurgeResponses :
                 last' = Observe("v2", "ETA", p, ETA(p))
       \/ \E c \in HeldCall :
              /\ c.op = "Purge" /\ c.client = "v2" /\ c.err = NilErr
              /\ last' = Observe("v2", "ETA", c.val, ETA(c.val))
    /\ UNCHANGED v3vars

\* v3 Purge up to config()'s test of c.Config: the defaults are written into
\* the caller's request, then c.Config is read
V3PurgeStart(g) ==
    /\ last = NoCall
    /\ pc[g] = "idle"
    /\ \E r \in v3_PurgeRequests :
           req' = [req EXCEPT ![g] = [orig |-> r, cur |-> v3_Defaults(r)]]
    /\ pc' = [pc EXCEPT ![g] = IF Config # "nil" THEN "request" ELSE "init"]
    /\ UNCHANGED <<last, Config, loads, reassigned>>

\* config() after it found c.Config nil: edgegrid.Init, then the unguarded
\* store to c.Config; a failed Init ends Purge with the error
V3ConfigInit(g) ==
    /\ last = NoCall
    /\ pc[g] = "init"
    /\ \E ok \in BOOLEAN :
           IF ok
           THEN /\ Config' = "loaded:" \o g
                /\ loads' = loads + 1
                /\ reassigned' = (reassigned \/ Config # "nil")
                /\ pc' = [pc EXCEPT ![g] = "request"]
                /\ UNCHANGED <<last, req>>
           ELSE /\ last' = v3_PurgeConfigError(req[g].orig, req[g].cur)
                /\ pc' = [pc EXCEPT ![g] = "idle"]
                /\ req' = [req EXCEPT ![g] = NoRequest]
                /\ UNCHANGED <<Config, loads, reassigned>>

\* the rest of v3 Purge: build the signed request, send, decode, classify
V3PurgeFinish(g) ==
    /\ last = NoCall
    /\ pc[g] = "request"
    /\ \E jsonRequestOK \in BOOLEAN, reply \in Replies(v3_PurgeResponses) :
           last' = WithReply(v3_Purge(req[g].orig, req[g].cur,
                                      jsonRequestOK, reply), reply)
    /\ pc' = [pc EXCEPT ![g] = "idle"]
    /\ req' = [req EXCEPT ![g] = NoRequest]
    /\ UNCHANGED <<Config, loads, reassigned>>

\* one caller: every operation of both clients and the accessors
Next ==
    \/ CallGetQueueLength
    \/ CallPurge
    \/ CallGetPurgeStatus
    \/ CallError
    \/ CallIsDone
    \/ CallETA
    \/ V3PurgeStart("g1")
    \/ V3ConfigInit("g1")
    \/ V3PurgeFinish("g1")
    \/ Discard

Spec == Init /\ [][Next]_vars

\* goroutines sharing one v3 client
NextConcurrent ==
    \/ \E g \in Goroutines : V3PurgeStart(g)
    \/ \E g \in Goroutines : V3ConfigInit(g)
    \/ \E g \in Goroutines : V3PurgeFinish(g)
    \/ Discard

SpecConcurrent == Init /\ [][NextConcurrent]_vars

-----------------------------------------------------------------------------
(* Properties.                                                             *)

\* last is what one of the four operations returned
IsOperation == last.op \in {"GetQueueLength", "Purge", "GetPurgeStatus"}

\* the transport answered and the body was decoded into the response value
Decoded ==
    /\ IsOperation
    /\ ~last.reply.sendErr
    /\ last.reply.body.kind = "json"
    /\ ~(last.client = "v2" /\ last.reply.status = 401)

\* C1: for each of the four operations and every decoded httpStatus s, once
\* the send and the decode have succeeded the operation returns an error iff
\* s < 200 or s > 299, that error being the decoded Response itself; for
\* 200 <= s <= 299 it returns the decoded value and a nil error.
C1_Classification ==
    Decoded =>
        LET v == last.reply.body.json
            s == v.Response.StatusCode
        IN  IF s < 200 \/ s > 299
            THEN /\ last.err.kind = "Response"
                 /\ last.err.resp = v.Response
            ELSE /\ last.err = NilErr
                 /\ last.val.kind = v.kind
                 /\ last.val.Response = v.Response
                 /\ \/ last.op = "GetQueueLength"
                       /\ last.val.QueueLength = v.QueueLength
                    \/ last.op # "GetQueueLength"
                       /\ last.val.PurgeID = v.PurgeID

C1_Witness ==
    /\ Decoded
    /\ last.client = "v3"
    /\ last.reply.body.json.Response.StatusCode = 300
    /\ last.err.kind = "Response"
    /\ last.err.resp.StatusCode = 300

\* the classification fields of a PurgeRequest and their documented defaults
Defaulted(value, default) == IF value = "" THEN default ELSE value

C3_Unauthorized ==
    (IsOperation /\ last.client = "v2" /\ ~last.reply.sendErr
         /\ last.reply.status = 401) =>
        /\ last.err = Errorf("unauthorized")
        /\ last.val = NilVal
        /\ \A i \in 1..Len(last.phases) :
               last.phases[i][1] \notin {"decode", "classify"}

C3_Witness ==
    /\ IsOperation
    /\ last.client = "v2"
    /\ last.reply.status = 401
    /\ last.reply.body.kind = "malformed"
    /\ last.err.msg = "unauthorized"

\* C4 as claimed: Error() is "{title}: {detail}" when detail is non-empty,
\* "{title}" when detail is empty and title is not, and "unknown" exactly
\* when both are empty.
C4_Original ==
    (last.op = "Error") =>
        /\ last.arg.Detail # "" =>
               last.out = last.arg.Title \o ": " \o last.arg.Detail
        /\ (last.arg.Detail = "" /\ last.arg.Title # "") =>
               last.out = last.arg.Title
        /\ (last.out = "unknown") <=>
               (last.arg.Detail = "" /\ last.arg.Title = "")

\* C4 as amended: in both versions Error() is "unknown" whenever title is
\* empty, whatever detail is; "{title}" when title is non-empty and detail is
\* empty; and "{title}: {detail}" when both are non-empty.
C4_Amended ==
    (last.op = "Error") =>
        /\ last.arg.Title = "" => last.out = "unknown"
        /\ (last.arg.Title # "" /\ last.arg.Detail = "") =>
               last.out = last.arg.Title
        /\ (last.arg.Title # "" /\ last.arg.Detail # "") =>
               last.out = last.arg.Title \o ": " \o last.arg.Detail

C4_Witness ==
    /\ last.op = "Error"
    /\ last.client = "v2"
    /\ last.arg.Title = ""
    /\ last.arg.Detail = "missing objects"
    /\ last.out = "unknown"

\* C5: the v3 signing configuration is loaded from the external source at
\* most once and then reused: at most one successful load ever happens, a
\* non-nil Client.Config is never stored to again, and a client built with a
\* Config never loads.
C5_LoadedOnce ==
    /\ loads <= 1
    /\ ~reassigned
    /\ Config = "supplied" => loads = 0

\* C6: the path v3 Purge posts to is "/ccu/v3/{action}/{type}/{network}" of
\* the classification fields after defaulting, so no segment of it is empty;
\* Type "cpcode" with Action and Network unset goes to
\* "/ccu/v3/invalidate/cpcode/production".
C6_Path ==
    (last.op = "Purge" /\ last.client = "v3") =>
        LET action  == Defaulted(last.orig.Action, "invalidate")
            type    == Defaulted(last.orig.Type, "url")
            network == Defaulted(last.orig.Network, "production")
        IN  /\ action # "" /\ type # "" /\ network # ""
            /\ last.target =
                   "/ccu/v3/" \o action \o "/" \o type \o "/" \o network
            /\ (last.orig.Type = "cpcode" /\ last.orig.Action = ""
                    /\ last.orig.Network = "") =>
                   last.target = "/ccu/v3/invalidate/cpcode/production"

C6_Witness ==
    /\ last.op = "Purge"
    /\ last.client = "v3"
    /\ last.orig.Type = "cpcode"
    /\ last.orig.Action = ""
    /\ last.orig.Network = ""
    /\ last.target = "/ccu/v3/invalidate/cpcode/production"
    /\ last.err = NilErr

\* t plus s seconds, computed without any wrap
SecondsAfter(t, s) == Add(t, Mul(Widen(Second), Widen(s)))

\* C7: ETA() of a v2 PurgeResponse is the zero time when Time is zero and
\* otherwise exactly Time + EstimatedSeconds seconds, for every integer
\* EstimatedSeconds; and the PurgeResponse of a successful v2 Purge has a
\* non-zero Time, stamped after the reply was classified as a success.
C7_ETA ==
    /\ (last.op = "ETA") =>
           last.out = IF last.arg.Time = ZeroTime THEN ZeroTime
                      ELSE SecondsAfter(last.arg.Time,
                                        last.arg.EstimatedSeconds)
    /\ (last.op = "Purge" /\ last.client = "v2" /\ last.err = NilErr) =>
           /\ last.val.Time # ZeroTime
           /\ last.phases[Len(last.phases)] = Phase("classify", TRUE)

\* C8: IsDone() is true iff PurgeStatus is exactly "Done"; it is false for
\* "", "Pending", "done" and any other status, also on a response whose
\* status code is an error's.
C8_IsDone ==
    (last.op = "IsDone") =>
        /\ last.out <=> (last.arg.PurgeStatus = "Done")
        /\ last.arg.PurgeStatus \in {"", "Pending", "done"} => ~last.out

C8_Witness ==
    /\ last.op = "IsDone"
    /\ last.arg.PurgeStatus = "done"
    /\ last.arg.Response.StatusCode = 300
    /\ last.out = FALSE

PhaseOrder == <<"build", "send", "decode", "classify">>

\* C9: a call of any of the four operations sends at most once and never
\* retries; its phases run in the order build, send, decode, classify; a
\* phase that fails ends the call with an error, and no later phase runs.
C9_Phases ==
    IsOperation =>
        LET ph == last.phases
        IN  /\ Cardinality({i \in 1..Len(ph) : ph[i][1] = "send"}) <= 1
            /\ Len(ph) <= Len(PhaseOrder)
            /\ \A i \in 1..Len(ph) : ph[i][1] = PhaseOrder[i]
            /\ \A i \in 1..Len(ph) :
                   ~ph[i][2] => (i = Len(ph) /\ last.err # NilErr)
            /\ last.err = NilErr =>
                   (Len(ph) = Len(PhaseOrder) /\ \A i \in 1..Len(ph) : ph[i][2])
            /\ last.reply = NoReply =>
                   (ph = <<Phase("build", FALSE)>> /\ last.err # NilErr)
            /\ last.reply.sendErr =>
                   /\ ph = <<Phase("build", TRUE), Phase("send", FALSE)>>
                   /\ last.err = Errorf("error sending HTTP request")
            /\ last.reply.body.kind \in {"malformed", "empty"} =>
                   /\ last.err # NilErr
                   /\ \A i \in 1..Len(ph) : ph[i][1] # "classify"

C9_Witness ==
    /\ IsOperation
    /\ last.client = "v3"
    /\ last.reply.sendErr
    /\ last.phases = <<Phase("build", TRUE), Phase("send", FALSE)>>
    /\ last.err.msg = "error sending HTTP request"

\* C10: every operation returns exactly one of a result and an error: a
\* non-nil error comes with a nil response, a nil error with a non-nil
\* response; so v2 Purge's timestamp is set on no path that returns an error.
C10_ResultXorError ==
    IsOperation =>
        /\ last.err # NilErr => last.val = NilVal
        /\ last.err = NilErr => last.val.kind # "nil"
        /\ (last.client = "v2" /\ last.op = "Purge" /\ last.val.kind # "nil") =>
               (last.err = NilErr /\ last.val.Time \in Times)

C10_Witness ==
    /\ IsOperation
    /\ last.op = "GetPurgeStatus"
    /\ last.reply.body.kind = "json"
    /\ last.reply.body.json.Response.StatusCode = 199
    /\ last.err.kind = "Response"
    /\ last.val = NilVal

=============================================================================
